---------------------------- MODULE Spec2Model ----------------------------
(***************************************************************************)
(* Birth-lottery web application: the server pipeline of fetch_data.php    *)
(* (cache gate, upstream fetches, indicator merge, probability assignment, *)
(* sort, output), the client of app.js (loadData, drawCountry, single      *)
(* draw, ten-draw, retry, back to start) and the map controller of         *)
(* world-map-d3.js (bindData, colours, focus, view reset).                 *)
(*                                                                         *)
(* Numbers are fixed-point integers:                                       *)
(*   birth rate and GDP   thousandths       (RateScale units per 1)        *)
(*   population           units of PopUnit persons                         *)
(*   weight               quarters of a birth (WeightScale units per birth)*)
(*   births               whole births (the value of round($births, 0))    *)
(*   probability          millionths of a percent (ProbScale per 1%)       *)
(* so weight = birthRate * population / 1000 is exact:                     *)
(*   (br/RateScale) * (pop*PopUnit) / 1000 = br*pop / WeightScale.         *)
(* Floating-point representation error of PHP/JS doubles is not modelled.  *)
(***************************************************************************)
EXTENDS Integers, Sequences, FiniteSets, TLC

VARIABLES
    upstream,       \* what the World Bank API returns: the four raw tables
    now,            \* server clock, seconds (time())
    cacheFile,      \* content of data_cache.json, or NoFile
    cacheMtime,     \* filemtime($cacheFile)
    response,       \* the last HTTP response fetch_data.php produced
    served,         \* what the last request found and did on the server
    page,           \* the browser page: "loading", "ready", "error"
    ticks,          \* number of clock advances so far
    state,          \* app.js: the global state object
    drawTimer,      \* app.js: the pending timers of performDrawing
    tenDrawTimer,   \* app.js: the pending timer of performTenDraw
    ui,             \* app.js: share modal, last download, button timers
    writer          \* fetch_data.php: a file_put_contents in progress

vars == <<upstream, now, ticks, cacheFile, cacheMtime, response, served, page,
          state, drawTimer, tenDrawTimer, ui, writer>>

serverVars == <<upstream, now, ticks, cacheFile, cacheMtime, response, served,
                writer>>
clientVars == <<page, state, drawTimer, tenDrawTimer, ui>>

-----------------------------------------------------------------------------
(* Bounds of the model *)

MaxCountries == 2      \* rows per upstream indicator table
MaxTicks == 2          \* clock advances per behaviour
RandomDen == 4         \* Math.random() takes the values k/RandomDen

(* Program constants *)

cacheTime == 86400
TenDrawCount == 10
ProbabilityDecimals == 6

(* Fixed-point units *)

RECURSIVE Pow10(_)
Pow10(k) == IF k = 0 THEN 1 ELSE 10 * Pow10(k - 1)

RateScale == Pow10(3)                          \* units per 1 of a rate or GDP
WeightScale == 2 * 2                           \* units per birth
PopUnit == (RateScale * 1000) \div WeightScale  \* persons per population unit
ProbScale == Pow10(ProbabilityDecimals)        \* units per 1 percent

-----------------------------------------------------------------------------
(* Generic helpers *)

Null == <<>>                       \* JSON null / PHP null, as an optional value
Some(v) == <<v>>
IsNull(o) == o = <<>>
NoFile == [exists |-> FALSE]
Undefined == [undefined |-> TRUE]  \* JavaScript undefined

Abs(n) == IF n < 0 THEN -n ELSE n

RECURSIVE SumSeq(_, _)
\* sum of the field f over a sequence of records, left to right
SumSeq(s, f) == IF s = <<>> THEN 0 ELSE s[1][f] + SumSeq(Tail(s), f)

\* PHP round(): n/d rounded to the nearest integer, halves away from zero
RoundHalfAway(n, d) ==
    IF n >= 0 THEN (2 * n + d) \div (2 * d)
    ELSE -((2 * (-n) + d) \div (2 * d))

\* round($x, 2) of a value in thousandths, in hundredths
Round2(x) == RoundHalfAway(x, RateScale \div 100)

SeqRange(s) == {s[i] : i \in 1..Len(s)}

UpperLetters == {"A","B","C","D","E","F","G","H","I","J","K","L","M",
                 "N","O","P","Q","R","S","T","U","V","W","X","Y","Z"}


-----------------------------------------------------------------------------
(* fetch_data.php: index construction *)

\* PHP array as an insertion-ordered list of [key, val] pairs
IndexHas(index, key) == \E i \in 1..Len(index) : index[i].key = key

IndexGet(index, key) ==
    index[CHOOSE i \in 1..Len(index) : index[i].key = key].val

\* $index[$key] = $val: overwrite in place, or append a new key
IndexPut(index, key, val) ==
    IF IndexHas(index, key)
    THEN [i \in 1..Len(index) |->
            IF index[i].key = key THEN [key |-> key, val |-> val] ELSE index[i]]
    ELSE Append(index, [key |-> key, val |-> val])

RECURSIVE BuildIndexFrom(_, _)
BuildIndexFrom(index, items) ==
    IF items = <<>> THEN index
    ELSE LET item == items[1] IN
         BuildIndexFrom(
            IF ~IsNull(item.value)
            THEN IndexPut(index, item.countryiso3code, item.value[1])
            ELSE index,
            Tail(items))

\* foreach ($data as $item) if (isset(code) && value !== null) index[code] = floatval(value)
BuildIndex(items) == BuildIndexFrom(<<>>, items)

RECURSIVE BuildCountryMapFrom(_, _)
BuildCountryMapFrom(map, metadata) ==
    IF metadata = <<>> THEN map
    ELSE LET country == metadata[1] IN
         BuildCountryMapFrom(
            IndexPut(map, country.id,
                     [name |-> country.name,
                      iso2Code |-> country.iso2Code,
                      region |-> country.region]),
            Tail(metadata))

\* $countryMap[$country['id']] = [...]; incomeLevel, capitalCity, longitude and
\* latitude are copied like name and region and are left out
BuildCountryMap(metadata) == BuildCountryMapFrom(<<>>, metadata)

-----------------------------------------------------------------------------
(* fetch_data.php: merge loop *)

\* PHP empty() of a string: "" and "0" are empty
PhpEmpty(str) == str = <<>> \/ str = <<"0">>

\* if (empty($iso2Code) || strlen($iso2Code) > 2) continue;
SkipIso2(iso2Code) == PhpEmpty(iso2Code) \/ Len(iso2Code) > 2

\* $births = ($birthRate * $population) / 1000, in quarters of a birth
Births(birthRate, population) == birthRate * population

\* the inclusion test without "$births > 0"
MeaningfulPopulationOnly(births, population) == population > 0

\* if ($births > 0 && $population > 0)
Meaningful(births, population) == births > 0 /\ population > 0

\* the weight taken from the rounded births
WeightOfRounded(births) == RoundHalfAway(births, WeightScale) * WeightScale

\* 'weight' => $births
WeightOf(births) == births

\* 'births' => round($births, 0)
RoundedBirths(births) == RoundHalfAway(births, WeightScale)

\* a missing GDP defaulting to 1 instead of 0
GdpOfDefaultOne(gdpIndex, countryId) ==
    IF IndexHas(gdpIndex, countryId) THEN IndexGet(gdpIndex, countryId)
    ELSE RateScale

\* $gdp = $gdpIndex[$countryId] ?? 0
GdpOf(gdpIndex, countryId) ==
    IF IndexHas(gdpIndex, countryId) THEN IndexGet(gdpIndex, countryId) ELSE 0

\* $totalWeight += $births
AddWeight(totalWeight, births) == totalWeight + births

\* one iteration of foreach ($birthRateIndex as $countryId => $birthRate),
\* on acc = [mergedData, totalWeight]
MergeOne(acc, countryId, birthRate, populationIndex, gdpIndex, countryMap) ==
    IF ~IndexHas(populationIndex, countryId) THEN acc
    ELSE IF ~IndexHas(countryMap, countryId) THEN acc
    ELSE LET population == IndexGet(populationIndex, countryId)
             gdp == GdpOf(gdpIndex, countryId)
             meta == IndexGet(countryMap, countryId)
             iso2Code == meta.iso2Code
             births == Births(birthRate, population)
         IN  IF SkipIso2(iso2Code) THEN acc
             ELSE IF Meaningful(births, population)
             THEN [mergedData |-> Append(acc.mergedData,
                     [id |-> countryId,
                      name |-> meta.name,
                      iso2 |-> iso2Code,
                      region |-> meta.region,
                      birthRate |-> Round2(birthRate),
                      population |-> population,
                      gdpPerCapita |-> Round2(gdp),
                      births |-> RoundedBirths(births),
                      weight |-> WeightOf(births)]),
                   totalWeight |-> AddWeight(acc.totalWeight, births)]
             ELSE acc

RECURSIVE MergeFrom(_, _, _, _, _)
MergeFrom(acc, birthRateIndex, populationIndex, gdpIndex, countryMap) ==
    IF birthRateIndex = <<>> THEN acc
    ELSE MergeFrom(MergeOne(acc, birthRateIndex[1].key, birthRateIndex[1].val,
                            populationIndex, gdpIndex, countryMap),
                   Tail(birthRateIndex), populationIndex, gdpIndex, countryMap)

RECURSIVE KeepKeysOf(_, _)
KeepKeysOf(index, other) ==
    IF index = <<>> THEN <<>>
    ELSE (IF IndexHas(other, index[1].key) THEN <<index[1]>> ELSE <<>>)
         \o KeepKeysOf(Tail(index), other)

\* a merge that also requires a GDP entry
MergeGdpRequired(birthRateData, populationData, gdpData, countryMetadata) ==
    MergeFrom([mergedData |-> <<>>, totalWeight |-> 0],
              KeepKeysOf(BuildIndex(birthRateData), BuildIndex(gdpData)),
              BuildIndex(populationData),
              BuildIndex(gdpData), BuildCountryMap(countryMetadata))

\* [$mergedData, $totalWeight] after the merge loop
Merge(birthRateData, populationData, gdpData, countryMetadata) ==
    MergeFrom([mergedData |-> <<>>, totalWeight |-> 0],
              BuildIndex(birthRateData), BuildIndex(populationData),
              BuildIndex(gdpData), BuildCountryMap(countryMetadata))

-----------------------------------------------------------------------------
(* fetch_data.php: probability, sort, output *)

RECURSIVE DivDigits(_, _, _, _)
\* long division: k further decimal digits of q + rem/d
DivDigits(q, rem, d, k) ==
    IF k = 0 THEN [q |-> q, rem |-> rem]
    ELSE DivDigits(q * 10 + (rem * 10) \div d, (rem * 10) % d, d, k - 1)

\* the probability cut off after 6 decimals instead of rounded
ProbabilityTruncated(weight, totalWeight) ==
    LET w == Abs(weight)
        t == Abs(totalWeight)
        r == DivDigits(w \div t, w % t, t, 2 + ProbabilityDecimals)
    IN  IF (weight < 0) = (totalWeight < 0) THEN r.q ELSE -r.q

\* round(($weight / $totalWeight) * 100, 6) in millionths of a percent,
\* for totalWeight # 0; halves are rounded away from zero
Probability(weight, totalWeight) ==
    LET w == Abs(weight)
        t == Abs(totalWeight)
        r == DivDigits(w \div t, w % t, t, 2 + ProbabilityDecimals)
        m == IF 2 * r.rem >= t THEN r.q + 1 ELSE r.q
    IN  IF (weight < 0) = (totalWeight < 0) THEN m ELSE -m

\* foreach ($mergedData as &$country) $country['probability'] = ...
AssignProbability(mergedData, totalWeight) ==
    [i \in 1..Len(mergedData) |->
        [id |-> mergedData[i].id,
         name |-> mergedData[i].name,
         iso2 |-> mergedData[i].iso2,
         region |-> mergedData[i].region,
         birthRate |-> mergedData[i].birthRate,
         population |-> mergedData[i].population,
         gdpPerCapita |-> mergedData[i].gdpPerCapita,
         births |-> mergedData[i].births,
         weight |-> mergedData[i].weight,
         probability |-> Probability(mergedData[i].weight, totalWeight)]]

\* the comparator with its operands exchanged
CompareBirthsAscending(a, b) == a.births - b.births

\* the usort comparator: $b['births'] - $a['births']
CompareBirths(a, b) == b.births - a.births

RECURSIVE InsertSorted(_, _)
\* insert x after every element that does not compare greater than it
InsertSorted(sorted, x) ==
    IF sorted = <<>> THEN <<x>>
    ELSE IF CompareBirths(sorted[1], x) <= 0
         THEN <<sorted[1]>> \o InsertSorted(Tail(sorted), x)
         ELSE <<x>> \o sorted

RECURSIVE UsortFrom(_, _)
UsortFrom(sorted, rest) ==
    IF rest = <<>> THEN sorted
    ELSE UsortFrom(InsertSorted(sorted, rest[1]), Tail(rest))

\* usort($mergedData, ...): PHP 8 sorts stably
Usort(mergedData) == UsortFrom(<<>>, mergedData)

\* an output whose totalBirths adds up the rounded births
OutputOfRoundedBirths(mergedData, totalWeight, time) ==
    [success |-> TRUE,
     timestamp |-> time,
     dataYear |-> [birthRate |-> 2023, population |-> 2023, gdp |-> 2024],
     totalCountries |-> Len(mergedData),
     totalBirths |-> SumSeq(mergedData, "births"),
     countries |-> mergedData]

\* $output
Output(mergedData, totalWeight, time) ==
    [success |-> TRUE,
     timestamp |-> time,
     dataYear |-> [birthRate |-> 2023, population |-> 2023, gdp |-> 2024],
     totalCountries |-> Len(mergedData),
     totalBirths |-> RoundHalfAway(totalWeight, WeightScale),
     countries |-> mergedData]

\* the pipeline from the four parsed tables to $output
Pipeline(tables, time) ==
    LET merged == Merge(tables.birthRate, tables.population, tables.gdp,
                        tables.country)
    IN  Output(Usort(AssignProbability(merged.mergedData, merged.totalWeight)),
               merged.totalWeight, time)

\* ($weight / $totalWeight) raises DivisionByZeroError, which catch (Exception)
\* does not catch
DivisionByZero(merged) == merged.mergedData # <<>> /\ merged.totalWeight = 0

-----------------------------------------------------------------------------
(* Upstream data: what the four World Bank queries return *)

\* rows of https://api.worldbank.org/v2/country
CountryCatalogue ==
    << [id |-> "USA", name |-> "United States", iso2Code |-> <<"U", "S">>,
        region |-> "North America"],
       [id |-> "CHN", name |-> "China", iso2Code |-> <<"C", "N">>,
        region |-> "East Asia & Pacific"],
       [id |-> "TWN", name |-> "Taiwan, China", iso2Code |-> <<"T", "W">>,
        region |-> "East Asia & Pacific"],
       [id |-> "WLD", name |-> "World", iso2Code |-> <<"1", "W">>,
        region |-> "Aggregates"],
       [id |-> "EUU", name |-> "European Union", iso2Code |-> <<"E", "U">>,
        region |-> "Aggregates"],
       [id |-> "AGG", name |-> "Not classified", iso2Code |-> <<>>,
        region |-> "Aggregates"],
       [id |-> "LNG", name |-> "Long code", iso2Code |-> <<"X", "Y", "Z">>,
        region |-> "Aggregates"] >>

\* country codes of the indicator rows; "NOM" has no metadata row
CountryCodes == <<"USA", "CHN", "TWN", "WLD", "EUU", "AGG", "LNG", "NOM">>

NoRow == [row |-> FALSE]
Row(value) == [row |-> TRUE, value |-> value]

\* the indicator values one country code can come with
Profile(birthRate, population, gdp) ==
    [birthRate |-> birthRate, population |-> population, gdp |-> gdp]

IndicatorProfiles ==
    { Profile(Row(Some(12000)), Row(Some(1200)), Row(Some(81695187))),
      Profile(Row(Some(9000)), Row(Some(4000)), NoRow),
      Profile(Row(Some(1)), Row(Some(1)), Row(Null)),
      Profile(Row(Some(5)), Row(Some(1)), Row(Some(1234))),
      Profile(Row(Some(2)), Row(Some(3)), NoRow),
      Profile(Row(Null), Row(Some(1)), Row(Some(1234))),
      Profile(Row(Some(5)), Row(Null), Row(Some(1234))),
      Profile(Row(Some(5)), NoRow, NoRow),
      Profile(NoRow, Row(Some(1)), Row(Some(1234))),
      Profile(Row(Some(0)), Row(Some(1)), NoRow),
      Profile(Row(Some(-1)), Row(Some(1)), Row(Null)),
      Profile(Row(Some(-1)), Row(Some(-1)), NoRow) }

RECURSIVE TableFrom(_, _, _)
\* the rows of one indicator for the chosen codes, in catalogue order
TableFrom(codes, choice, indicator) ==
    IF codes = <<>> THEN <<>>
    ELSE (IF codes[1] \in DOMAIN choice /\ choice[codes[1]][indicator].row
          THEN << [countryiso3code |-> codes[1],
                   value |-> choice[codes[1]][indicator].value] >>
          ELSE <<>>)
         \o TableFrom(Tail(codes), choice, indicator)

\* choice: a function from the chosen codes to their profiles
Tables(choice) ==
    [birthRate |-> TableFrom(CountryCodes, choice, "birthRate"),
     population |-> TableFrom(CountryCodes, choice, "population"),
     gdp |-> TableFrom(CountryCodes, choice, "gdp"),
     country |-> CountryCatalogue]

CodeSet == {CountryCodes[i] : i \in 1..Len(CountryCodes)}

UpstreamInputs(codes, profiles, maxCountries) ==
    { Tables(choice) :
        choice \in UNION { [S -> profiles] :
                           S \in {T \in SUBSET codes : Cardinality(T) <= maxCountries} } }

-----------------------------------------------------------------------------
(* fetch_data.php: the request handler *)

NoFailure == [at |-> 0, kind |-> "none"]

\* the outcomes of a fetch that throw: in fetchFromAPI a cURL error or an
\* HTTP status # 200, in parseWorldBankData a body that json_decode turns
\* into null, a scalar or a PHP array of fewer than two elements
ThrowingKinds == {"curl", "http", "format"}

\* a body that is a JSON object of two or more members: json_decode(.., true)
\* makes it a PHP array with count >= 2, parseWorldBankData accepts it and
\* returns $data[1], which is null
AcceptedKinds == {"object"}

\* what the upstream can do to one request: nothing, or spoil fetch number at
FetchFailures ==
    {NoFailure} \cup [at : 1..4, kind : ThrowingKinds \cup AcceptedKinds]

ErrorMessage(kind) ==
    CASE kind = "curl" -> "cURL Error"
      [] kind = "http" -> "HTTP Error"
      [] kind = "format" -> "Invalid API response format"

\* the four tables as parseWorldBankData returns them; foreach over the null
\* of an accepted object body visits nothing
ParsedTables(tables, failure) ==
    IF failure.kind \notin AcceptedKinds THEN tables
    ELSE CASE failure.at = 1 -> [tables EXCEPT !.birthRate = <<>>]
           [] failure.at = 2 -> [tables EXCEPT !.population = <<>>]
           [] failure.at = 3 -> [tables EXCEPT !.gdp = <<>>]
           [] failure.at = 4 -> [tables EXCEPT !.country = <<>>]

\* echo "<!-- Fetching ... -->\n" before each of the four fetches
EchoLines ==
    << [text |-> "<!-- Fetching birth rate data... -->"],
       [text |-> "<!-- Fetching population data... -->"],
       [text |-> "<!-- Fetching GDP per capita data... -->"],
       [text |-> "<!-- Fetching country metadata... -->"] >>

\* json_encode(...) as one chunk of the body
Json(doc) == [json |-> doc]

\* no request has been served yet
NoRequest ==
    [done |-> FALSE, existed |-> FALSE, age |-> 0, time |-> 0,
     failure |-> NoFailure, fetches |-> 0, merged |-> FALSE, wrote |-> FALSE]

\* the record of a request: the cache file as the request found it, what the
\* upstream did, the fetches started, whether the merge ran, whether the
\* cache file was written
Served(failure, fetches, merged, wrote) ==
    [done |-> TRUE, existed |-> cacheFile # NoFile, age |-> now - cacheMtime,
     time |-> now, failure |-> failure, fetches |-> fetches,
     merged |-> merged, wrote |-> wrote]

\* the cache test with the comparison turned round
CacheValidOnlyStale == cacheFile # NoFile /\ now - cacheMtime > cacheTime

\* no request is inside file_put_contents
NoWrite == [stage |-> "idle", json |-> Null]

\* if (file_exists($cacheFile) && (time() - filemtime($cacheFile) < $cacheTime))
CacheValid == cacheFile # NoFile /\ now - cacheMtime < cacheTime

CacheHit ==
    /\ CacheValid
    /\ response' = [status |-> 200, body |-> <<cacheFile.content>>]
    /\ served' = Served(NoFailure, 0, FALSE, FALSE)
    /\ UNCHANGED <<upstream, now, ticks, writer, cacheFile, cacheMtime>>

\* a catch block that also stores the failure result in the cache file
FetchFailedCachesError(failure) ==
    /\ ~CacheValid
    /\ failure.kind \in ThrowingKinds
    /\ response' = [status |-> 500,
                    body |-> SubSeq(EchoLines, 1, failure.at)
                             \o << Json([success |-> FALSE,
                                         error |-> ErrorMessage(failure.kind)]) >>]
    /\ cacheFile' = [exists |-> TRUE,
                     content |-> Json([success |-> FALSE,
                                       error |-> ErrorMessage(failure.kind)])]
    /\ cacheMtime' = now
    /\ served' = Served(failure, failure.at, FALSE, TRUE)
    /\ UNCHANGED <<upstream, now, ticks, writer>>

\* the try block fails at fetch number failure.at
FetchFailed(failure) ==
    /\ ~CacheValid
    /\ failure.kind \in ThrowingKinds
    /\ response' = [status |-> 500,
                    body |-> SubSeq(EchoLines, 1, failure.at)
                             \o << Json([success |-> FALSE,
                                         error |-> ErrorMessage(failure.kind)]) >>]
    /\ served' = Served(failure, failure.at, FALSE, FALSE)
    /\ UNCHANGED <<upstream, now, ticks, writer, cacheFile, cacheMtime>>

\* the try block without its file_put_contents
PipelineRunNoWrite(failure) ==
    /\ ~CacheValid
    /\ failure.kind \notin ThrowingKinds
    /\ response' = [status |-> 200,
                    body |-> EchoLines
                             \o <<Json(Pipeline(ParsedTables(upstream, failure),
                                                now))>>]
    /\ served' = Served(failure, Len(EchoLines), TRUE, FALSE)
    /\ UNCHANGED <<upstream, now, ticks, writer, cacheFile, cacheMtime>>

\* the try block runs to its end
PipelineRun(failure) ==
    /\ ~CacheValid
    /\ failure.kind \notin ThrowingKinds
    /\ LET tables == ParsedTables(upstream, failure)
           merged == Merge(tables.birthRate, tables.population,
                           tables.gdp, tables.country)
           jsonOutput == Json(Pipeline(tables, now))
       IN  IF DivisionByZero(merged)
           THEN /\ response' = [status |-> 500, body |-> EchoLines]
                /\ served' = Served(failure, Len(EchoLines), TRUE, FALSE)
                /\ UNCHANGED <<cacheFile, cacheMtime>>
           ELSE /\ cacheFile' = [exists |-> TRUE, content |-> jsonOutput]
                /\ cacheMtime' = now
                /\ response' = [status |-> 200,
                                body |-> EchoLines \o <<jsonOutput>>]
                /\ served' = Served(failure, Len(EchoLines), TRUE, TRUE)
    /\ UNCHANGED <<upstream, now, ticks, writer>>

\* one request to fetch_data.php; failures: what the upstream can do to it
Request(failures) ==
    \/ CacheHit
    \/ \E failure \in failures : FetchFailed(failure)
    \/ \E failure \in failures : PipelineRun(failure)

-----------------------------------------------------------------------------
(* app.js: the sampler *)

\* c.iso2.match(/^[A-Z]{2}$/)
MatchesTwoUpper(iso2) ==
    Len(iso2) = 2 /\ \A i \in 1..Len(iso2) : iso2[i] \in UpperLetters

\* the filter without its region test
IsRealCountryAnyRegion(c) ==
    /\ c.iso2 # <<>>
    /\ Len(c.iso2) = 2
    /\ MatchesTwoUpper(c.iso2)

\* the filter of drawCountry (and of check-map-coverage.js)
IsRealCountry(c) ==
    /\ c.region # "Aggregates"
    /\ c.iso2 # <<>>
    /\ Len(c.iso2) = 2
    /\ MatchesTwoUpper(c.iso2)

RECURSIVE Filter(_)
\* state.data.countries.filter(...)
Filter(countries) ==
    IF countries = <<>> THEN <<>>
    ELSE (IF IsRealCountry(countries[1]) THEN <<countries[1]>> ELSE <<>>)
         \o Filter(Tail(countries))

\* realCountries.reduce((sum, c) => sum + c.births, 0)
DrawTotalWeight(realCountries) == SumSeq(realCountries, "births")

\* a fallback on the last element
FallbackLast(realCountries) ==
    IF realCountries = <<>> THEN Undefined
    ELSE realCountries[Len(realCountries)]

\* "return realCountries[0]" after the loop
Fallback(realCountries) ==
    IF realCountries = <<>> THEN Undefined ELSE realCountries[1]

RECURSIVE SelectStrict(_, _, _, _)
\* the selection loop with "random < 0" as its test
SelectStrict(realCountries, i, random, den) ==
    IF i > Len(realCountries) THEN Fallback(realCountries)
    ELSE LET rest == random - realCountries[i].births * den
         IN  IF rest < 0 THEN realCountries[i]
             ELSE SelectStrict(realCountries, i + 1, rest, den)

RECURSIVE Select(_, _, _, _)
\* the selection loop from entry i on; random is scaled by den
Select(realCountries, i, random, den) ==
    IF i > Len(realCountries) THEN Fallback(realCountries)
    ELSE LET rest == random - realCountries[i].births * den
         IN  IF rest <= 0 THEN realCountries[i]
             ELSE Select(realCountries, i + 1, rest, den)

\* drawCountry() when Math.random() returns num/den
drawCountry(countries, num, den) ==
    LET realCountries == Filter(countries)
        totalWeight == DrawTotalWeight(realCountries)
    IN  Select(realCountries, 1, num * totalWeight, den)

\* { ...result, rank: i + 1 }
WithRank(result, rank) ==
    IF result = Undefined THEN [rank |-> rank]
    ELSE [id |-> result.id, name |-> result.name, iso2 |-> result.iso2,
          region |-> result.region, birthRate |-> result.birthRate,
          population |-> result.population,
          gdpPerCapita |-> result.gdpPerCapita, births |-> result.births,
          weight |-> result.weight, probability |-> result.probability,
          rank |-> rank]

\* the i-th value of the random source with the given seed and step
RandomAt(seed, step, i) == (seed + (i - 1) * step) % RandomDen

\* the results array of performTenDraw
TenDraws(countries, seed, step) ==
    [i \in 1..TenDrawCount |->
        WithRank(drawCountry(countries, RandomAt(seed, step, i), RandomDen), i)]

-----------------------------------------------------------------------------
(* world-map-d3.js: WorldMapController *)

\* the features of countries-50m.json that get an ISO2 code, in file order;
\* lookups by number and by name find no feature the ISO2 lookup misses
MapFeatures == << <<"U", "S">>, <<"C", "N">>, <<"T", "W">> >>

MapIsos == {MapFeatures[i] : i \in 1..Len(MapFeatures)}

\* this.unifiedRegions
UnifiedRegions ==
    [iso \in {<<"C", "N">>, <<"T", "W">>} |-> << <<"C", "N">>, <<"T", "W">> >>]

Hex(code) == [hex |-> code]

\* a country of loadTopoJSON: no data, fill #e0e0e0, stroke #ffffff
NewFeature ==
    [data |-> Null, fill |-> Hex("#e0e0e0"), stroke |-> "#ffffff"]

\* this.countries while countries-50m.json is not loaded
NoFeatures == [iso \in {} |-> NewFeature]

\* the constructor, and loadTopoJSON when it has finished
NewMap(loaded) ==
    [colorScheme |-> "probability",
     bound |-> FALSE,
     dataRanges |-> Null,
     countries |-> IF loaded THEN [iso \in MapIsos |-> NewFeature]
                   ELSE NoFeatures,
     selectedCountry |-> Null,
     view |-> "identity"]

\* Math.min(...values) and Math.max(...values) of a non-empty array
MinOf(values) ==
    CHOOSE v \in SeqRange(values) : \A w \in SeqRange(values) : v <= w

MaxOf(values) ==
    CHOOSE v \in SeqRange(values) : \A w \in SeqRange(values) : v >= w

NoRange == [empty |-> TRUE]

RangeOf(values) ==
    IF values = <<>> THEN NoRange
    ELSE [min |-> MinOf(values), max |-> MaxOf(values)]

HasIso2(c) == c.iso2 # <<>> /\ Len(c.iso2) = 2

FieldOf(records, field) == [i \in 1..Len(records) |-> records[i][field]]

\* this.dataRanges of bindData
DataRanges(countries) ==
    LET validCountries == SelectSeq(countries, HasIso2)
    IN  [probability |-> RangeOf(FieldOf(validCountries, "probability")),
         gdp |-> RangeOf(FieldOf(validCountries, "gdpPerCapita")),
         birthRate |-> RangeOf(FieldOf(validCountries, "birthRate"))]

\* getColorForValue: #e8f4f8 for a flat range, else the colour of the
\* gradient at (value - min) / (max - min), kept as that position
GetColorForValue(value, range) ==
    IF range.max = range.min THEN Hex("#e8f4f8")
    ELSE [value |-> value, min |-> range.min, max |-> range.max]

RECURSIVE FillAll(_, _, _)
\* d3.select(element).style('fill', color) for each of the countries loaded
FillAll(countries, isos, color) ==
    IF isos = <<>> THEN countries
    ELSE FillAll(IF isos[1] \in DOMAIN countries
                 THEN [countries EXCEPT ![isos[1]].fill = color]
                 ELSE countries,
                 Tail(isos), color)

\* the related codes of a unified region, without the code itself
RelatedIsos(iso2) ==
    IF iso2 \in DOMAIN UnifiedRegions
    THEN SelectSeq(UnifiedRegions[iso2], LAMBDA r : r # iso2)
    ELSE <<>>

\* syncUnifiedRegionColors(iso2, color)
SyncUnifiedRegionColors(map, iso2, color) ==
    [map EXCEPT !.countries = FillAll(@, RelatedIsos(iso2), color)]

\* updateCountryColor(country)
UpdateCountryColor(map, iso2) ==
    LET country == map.countries[iso2]
    IN  IF country.data = Null THEN map
        ELSE IF map.dataRanges = Null
        THEN [map EXCEPT !.countries[iso2].fill = Hex("#e0e0e0")]
        ELSE LET data == country.data[1]
                 ranges == map.dataRanges[1]
                 color ==
                   CASE map.colorScheme = "gdp" ->
                          GetColorForValue(data.gdpPerCapita, ranges.gdp)
                     [] map.colorScheme = "birthrate" ->
                          GetColorForValue(data.birthRate, ranges.birthRate)
                     [] OTHER ->
                          GetColorForValue(data.probability, ranges.probability)
             IN  SyncUnifiedRegionColors(
                     [map EXCEPT !.countries[iso2].fill = color], iso2, color)

RECURSIVE BindFrom(_, _)
\* countries.forEach(item => ...) of bindData
BindFrom(map, items) ==
    IF items = <<>> THEN map
    ELSE LET item == items[1]
         IN  BindFrom(
                 IF item.iso2 \in DOMAIN map.countries
                 THEN UpdateCountryColor(
                          [map EXCEPT !.countries[item.iso2].data =
                              Some([probability |-> item.probability,
                                    gdpPerCapita |-> item.gdpPerCapita,
                                    birthRate |-> item.birthRate])],
                          item.iso2)
                 ELSE map,
                 Tail(items))

\* bindData(data)
BindData(map, data) ==
    BindFrom([map EXCEPT !.bound = TRUE,
                         !.dataRanges = Some(DataRanges(data.countries))],
             data.countries)

RECURSIVE RecolorFrom(_, _)
RecolorFrom(map, isos) ==
    IF isos = <<>> THEN map
    ELSE RecolorFrom(IF isos[1] \in DOMAIN map.countries
                     THEN UpdateCountryColor(map, isos[1])
                     ELSE map,
                     Tail(isos))

\* updateColors(scheme) -> setColorScheme(scheme)
SetColorScheme(map, scheme) ==
    RecolorFrom([map EXCEPT !.colorScheme = scheme], MapFeatures)

\* getUnifiedRegionCountries(iso2)
GetUnifiedRegionCountries(map, iso2) ==
    SelectSeq(IF iso2 \in DOMAIN UnifiedRegions THEN UnifiedRegions[iso2]
              ELSE <<iso2>>,
              LAMBDA r : r \in DOMAIN map.countries)

RECURSIVE StrokeAll(_, _, _)
StrokeAll(countries, isos, stroke) ==
    IF isos = <<>> THEN countries
    ELSE StrokeAll([countries EXCEPT ![isos[1]].stroke = stroke],
                   Tail(isos), stroke)

\* focusCountry(iso): zoom on the unified region and highlight it
FocusCountry(map, iso) ==
    IF iso \notin DOMAIN map.countries THEN map
    ELSE LET related == GetUnifiedRegionCountries(map, iso)
         IN  [map EXCEPT !.view = "focused",
                         !.selectedCountry = Some(iso),
                         !.countries =
                             StrokeAll(FillAll(@, related, Hex("#ff6b6b")),
                                       related, "#ff0000")]

\* resetView()
ResetView(map) ==
    IF map.selectedCountry = Null THEN [map EXCEPT !.view = "identity"]
    ELSE LET related ==
                 GetUnifiedRegionCountries(map, map.selectedCountry[1])
             recolored == RecolorFrom(map, related)
         IN  [recolored EXCEPT !.view = "identity",
                               !.selectedCountry = Null,
                               !.countries = StrokeAll(@, related, "#ffffff")]

NoMaps == [start |-> Null, drawing |-> Null, result |-> Null, tenDraw |-> Null]

MapSlots == {"start", "drawing", "result", "tenDraw"}

ColorSchemes == {"probability", "gdp", "birthrate"}

-----------------------------------------------------------------------------
(* app.js: page load and draws *)

NoTimer == [pending |-> FALSE]

InitialState ==
    [data |-> Null, currentResult |-> Null, tenDrawResults |-> Null,
     isDrawing |-> FALSE, isTenDrawing |-> FALSE, maps |-> NoMaps]

\* the page as it is served: the share modal hidden, nothing downloaded, no
\* timer of a button pending, no click on the start button turned away
InitialUi ==
    [shareModal |-> "closed", download |-> Null, retryTimer |-> FALSE,
     startReturned |-> FALSE]

\* response.json(): the body must be one JSON document
ParsesAsJson(body) == Len(body) = 1 /\ "json" \in DOMAIN body[1]

\* init() -> loadData(): fetch('fetch_data.php'), parse, keep the result;
\* updateStats() -> initializeMaps(): the start map, bound after 500 ms;
\* loads: whether the features of a map can be there (TRUE) or missing
\* (FALSE) when it is bound
LoadData(failures, loads) ==
    /\ page = "loading"
    /\ Request(failures)
    /\ IF ParsesAsJson(response'.body) /\ response'.body[1].json.success
       THEN /\ \E loaded \in loads :
                 state' = [state EXCEPT
                     !.data = Some(response'.body[1].json),
                     !.maps.start =
                         Some(BindData(NewMap(loaded), response'.body[1].json))]
            /\ page' = "ready"
       ELSE /\ page' = "error"
            /\ UNCHANGED state
    /\ UNCHANGED <<drawTimer, tenDrawTimer, ui>>

\* the user reloads the page
Reload ==
    /\ page # "loading"
    /\ page' = "loading"
    /\ state' = InitialState
    /\ drawTimer' = NoTimer
    /\ tenDrawTimer' = NoTimer
    /\ ui' = InitialUi
    /\ UNCHANGED serverVars

\* click on a map control button: updateColors(scheme) on the start map
ChangeColorScheme ==
    /\ page = "ready"
    /\ state.maps.start # Null
    /\ \E scheme \in ColorSchemes :
         state' = [state EXCEPT
             !.maps.start = Some(SetColorScheme(@[1], scheme))]
    /\ UNCHANGED <<drawTimer, tenDrawTimer, page, ui>>
    /\ UNCHANGED serverVars

\* a start button without the test of isDrawing
StartDrawingUnguarded ==
    /\ page = "ready"
    /\ \E num \in 0..(RandomDen - 1) :
         LET result == drawCountry(state.data[1].countries, num, RandomDen)
         IN  /\ state' = [state EXCEPT !.isDrawing = TRUE,
                                       !.currentResult = Some(result),
                                       !.maps.drawing = Some(NewMap(FALSE))]
             /\ drawTimer' = [pending |-> TRUE, result |-> result]
    /\ ui' = [ui EXCEPT !.startReturned = FALSE]
    /\ UNCHANGED <<tenDrawTimer, page>>
    /\ UNCHANGED serverVars

\* click on the start button: startDrawing() and performDrawing() up to its
\* first await
StartDrawing ==
    /\ page = "ready"
    /\ ~state.isDrawing
    /\ \E num \in 0..(RandomDen - 1) :
         LET result == drawCountry(state.data[1].countries, num, RandomDen)
         IN  /\ state' = [state EXCEPT !.isDrawing = TRUE,
                                       !.currentResult = Some(result),
                                       !.maps.drawing = Some(NewMap(FALSE))]
             /\ drawTimer' = [pending |-> TRUE, result |-> result]
    /\ ui' = [ui EXCEPT !.startReturned = FALSE]
    /\ UNCHANGED <<tenDrawTimer, page>>
    /\ UNCHANGED serverVars

\* click on the start button while a draw is in progress: startDrawing()
\* returns at "if (state.isDrawing) return"
StartDrawingReturns ==
    /\ page = "ready"
    /\ state.isDrawing
    /\ ui' = [ui EXCEPT !.startReturned = TRUE]
    /\ UNCHANGED <<state, drawTimer, tenDrawTimer, page>>
    /\ UNCHANGED serverVars

\* a map as performDrawing and its callers bind it 500 ms after its
\* construction: the features may have arrived in between
BoundAfterWait(map, loaded, data) ==
    BindData(IF loaded THEN [map EXCEPT !.countries = NewMap(TRUE).countries]
             ELSE map,
             data)

\* the rest of performDrawing: the drawing map is bound, the timers fire,
\* the map is focused, then showResult(result) runs to its end;
\* "result.iso2" of an undefined result throws in the first timer callback
ShowResult(loads) ==
    /\ drawTimer.pending
    /\ drawTimer' = NoTimer
    /\ \E loaded \in loads, loadedResult \in loads :
         LET result == drawTimer.result
             data == state.data[1]
             drawing ==
                 IF state.maps.drawing = Null THEN NewMap(FALSE)
                 ELSE state.maps.drawing[1]
             drawingBound ==
                 BoundAfterWait(drawing,
                                loaded, data)
         IN  IF result = Undefined
             THEN state' = [state EXCEPT !.maps.drawing = Some(drawingBound)]
             ELSE state' = [state EXCEPT
                     !.isDrawing = FALSE,
                     !.maps.drawing =
                         Some(IF result.iso2 # <<>>
                              THEN FocusCountry(drawingBound, result.iso2)
                              ELSE drawingBound),
                     !.maps.result =
                         Some(LET bound ==
                                    BoundAfterWait(NewMap(FALSE), loadedResult,
                                                   data)
                              IN  IF result.iso2 # <<>>
                                  THEN FocusCountry(bound, result.iso2)
                                  ELSE bound)]
    /\ UNCHANGED <<tenDrawTimer, page, ui>>
    /\ UNCHANGED serverVars

\* click on "retry" of the result screen
Retry ==
    /\ page = "ready"
    /\ state.maps.result # Null
    /\ state' = [state EXCEPT
            !.maps.drawing = Null,
            !.maps.result = Null,
            !.maps.start = IF @ = Null THEN Null ELSE Some(ResetView(@[1]))]
    /\ UNCHANGED <<drawTimer, tenDrawTimer, page, ui>>
    /\ UNCHANGED serverVars

\* a ten-draw that writes the rank into the record drawn
StartTenDrawInPlace(steps) ==
    /\ page = "ready"
    /\ ~state.isTenDrawing
    /\ \E seed \in 0..(RandomDen - 1), step \in steps :
         LET results == TenDraws(state.data[1].countries, seed, step)
             ranked(c) ==
                 IF \E i \in 1..TenDrawCount : results[i] = WithRank(c, i)
                 THEN WithRank(c, CHOOSE i \in 1..TenDrawCount :
                                     results[i] = WithRank(c, i))
                 ELSE c
         IN  /\ state' = [state EXCEPT
                     !.isTenDrawing = TRUE,
                     !.tenDrawResults = Some(results),
                     !.maps.drawing = Some(NewMap(FALSE)),
                     !.data = Some([@[1] EXCEPT !.countries =
                         [k \in 1..Len(@) |-> ranked(@[k])]])]
             /\ tenDrawTimer' = [pending |-> TRUE, results |-> results]
    /\ UNCHANGED <<drawTimer, page, ui>>
    /\ UNCHANGED serverVars

\* click on the ten-draw button: startTenDraw() and performTenDraw() up to
\* its first await; steps: the steps of the random source tried
StartTenDraw(steps) ==
    /\ page = "ready"
    /\ ~state.isTenDrawing
    /\ \E seed \in 0..(RandomDen - 1), step \in steps :
         LET results == TenDraws(state.data[1].countries, seed, step)
         IN  /\ state' = [state EXCEPT !.isTenDrawing = TRUE,
                                       !.tenDrawResults = Some(results),
                                       !.maps.drawing = Some(NewMap(FALSE))]
             /\ tenDrawTimer' = [pending |-> TRUE, results |-> results]
    /\ UNCHANGED <<drawTimer, page, ui>>
    /\ UNCHANGED serverVars

\* the rest of performTenDraw: the drawing map is bound, the timer fires,
\* then showTenDrawResults(results) runs to its end
ShowTenDrawResults(loads) ==
    /\ tenDrawTimer.pending
    /\ tenDrawTimer' = NoTimer
    /\ \E loaded \in loads, loadedTenDraw \in loads :
         LET data == state.data[1]
             drawing ==
                 IF state.maps.drawing = Null THEN NewMap(FALSE)
                 ELSE state.maps.drawing[1]
         IN  state' = [state EXCEPT
                 !.isTenDrawing = FALSE,
                 !.maps.drawing =
                     Some(BoundAfterWait(drawing, loaded, data)),
                 !.maps.tenDraw =
                     Some(BoundAfterWait(NewMap(FALSE), loadedTenDraw, data))]
    /\ UNCHANGED <<drawTimer, page, ui>>
    /\ UNCHANGED serverVars

\* click on a card of the ten-draw results: focusCountry on the ten-draw map
FocusTenDrawResult ==
    /\ page = "ready"
    /\ state.maps.tenDraw # Null
    /\ state.tenDrawResults # Null
    /\ \E result \in SeqRange(state.tenDrawResults[1]) :
         /\ "iso2" \in DOMAIN result
         /\ result.iso2 # <<>>
         /\ state' = [state EXCEPT
                !.maps.tenDraw = Some(FocusCountry(@[1], result.iso2))]
    /\ UNCHANGED <<drawTimer, tenDrawTimer, page, ui>>
    /\ UNCHANGED serverVars

\* click on "back to start" of the ten-draw result screen
BackToStart ==
    /\ page = "ready"
    /\ state.maps.tenDraw # Null
    /\ state' = [state EXCEPT
            !.maps.drawing = Null,
            !.maps.tenDraw = Null,
            !.maps.start = IF @ = Null THEN Null ELSE Some(ResetView(@[1]))]
    /\ UNCHANGED <<drawTimer, tenDrawTimer, page, ui>>
    /\ UNCHANGED serverVars

\* click on "ten more" of the ten-draw result screen: retryTenDraw() clears
\* the maps as backToStart() does and sets a timer that calls startTenDraw()
RetryTenDraw ==
    /\ page = "ready"
    /\ state.maps.tenDraw # Null
    /\ state' = [state EXCEPT
            !.maps.drawing = Null,
            !.maps.tenDraw = Null,
            !.maps.start = IF @ = Null THEN Null ELSE Some(ResetView(@[1]))]
    /\ ui' = [ui EXCEPT !.retryTimer = TRUE]
    /\ UNCHANGED <<drawTimer, tenDrawTimer, page>>
    /\ UNCHANGED serverVars

\* the timer of retryTenDraw() fires: startTenDraw()
RetryTenDrawTimer(steps) ==
    /\ ui.retryTimer
    /\ ui' = [ui EXCEPT !.retryTimer = FALSE]
    /\ IF state.isTenDrawing
       THEN UNCHANGED <<state, tenDrawTimer>>
       ELSE \E seed \in 0..(RandomDen - 1), step \in steps :
              LET results == TenDraws(state.data[1].countries, seed, step)
              IN  /\ state' = [state EXCEPT
                          !.isTenDrawing = TRUE,
                          !.tenDrawResults = Some(results),
                          !.maps.drawing = Some(NewMap(FALSE))]
                  /\ tenDrawTimer' = [pending |-> TRUE, results |-> results]
    /\ UNCHANGED <<drawTimer, page>>
    /\ UNCHANGED serverVars

\* JavaScript truthiness of state.currentResult
HasCurrentResult(st) ==
    st.currentResult # Null /\ st.currentResult # Some(Undefined)

\* click on "share" of the result screen: share() opens the modal and
\* generateShareImage() draws the single result
Share ==
    /\ page = "ready"
    /\ state.maps.result # Null
    /\ HasCurrentResult(state)
    /\ ui' = [ui EXCEPT !.shareModal = "single"]
    /\ UNCHANGED <<state, drawTimer, tenDrawTimer, page>>
    /\ UNCHANGED serverVars

\* click on "share" of the ten-draw result screen: shareTenDraw() opens the
\* modal and generateTenDrawShareImage() draws the ten results
ShareTenDraw ==
    /\ page = "ready"
    /\ state.maps.tenDraw # Null
    /\ state.tenDrawResults # Null
    /\ ui' = [ui EXCEPT !.shareModal = "tenDraw"]
    /\ UNCHANGED <<state, drawTimer, tenDrawTimer, page>>
    /\ UNCHANGED serverVars

\* click on the close button of the share modal
CloseShareModal ==
    /\ ui.shareModal # "closed"
    /\ ui' = [ui EXCEPT !.shareModal = "closed"]
    /\ UNCHANGED <<state, drawTimer, tenDrawTimer, page>>
    /\ UNCHANGED serverVars

\* the file name saveImage() gives the download, without its Date.now()
SaveFileName(st) ==
    IF st.tenDrawResults # Null /\ Len(st.tenDrawResults[1]) > 0
    THEN [kind |-> "tenDraw", name |-> Null]
    ELSE IF HasCurrentResult(st)
         THEN [kind |-> "single", name |-> Some(st.currentResult[1].name)]
         ELSE [kind |-> "plain", name |-> Null]

\* click on "save image" of the share modal: the image the modal shows is
\* downloaded under the name saveImage() chooses
SaveImage ==
    /\ ui.shareModal # "closed"
    /\ ui' = [ui EXCEPT !.download =
                  Some([image |-> ui.shareModal,
                        fileName |-> SaveFileName(state)])]
    /\ UNCHANGED <<state, drawTimer, tenDrawTimer, page>>
    /\ UNCHANGED serverVars

-----------------------------------------------------------------------------
(* Server environment *)

\* a request from another client
OtherRequest(failures) ==
    /\ Request(failures)
    /\ UNCHANGED clientVars

\* a request of another client reaches file_put_contents: the cache file is
\* opened for writing, which creates or empties it and sets its time, before
\* any byte of $jsonOutput is in it
WriterOpens ==
    /\ writer = NoWrite
    /\ ~CacheValid
    /\ LET merged == Merge(upstream.birthRate, upstream.population,
                           upstream.gdp, upstream.country)
           jsonOutput == Json(Pipeline(upstream, now))
       IN  /\ ~DivisionByZero(merged)
           /\ writer' = [stage |-> "open", json |-> Some(jsonOutput),
                         served |-> Served(NoFailure, Len(EchoLines), TRUE, TRUE)]
    /\ cacheFile' = [exists |-> TRUE, content |-> [text |-> ""]]
    /\ cacheMtime' = now
    /\ UNCHANGED <<upstream, now, ticks, response, served>>
    /\ UNCHANGED clientVars

\* a part of $jsonOutput is in the file
WriterWrites ==
    /\ writer.stage = "open"
    /\ writer' = [writer EXCEPT !.stage = "partial"]
    /\ cacheFile' = [exists |-> TRUE, content |-> [prefix |-> writer.json[1]]]
    /\ cacheMtime' = now
    /\ UNCHANGED <<upstream, now, ticks, response, served>>
    /\ UNCHANGED clientVars

\* file_put_contents returns and the request echoes $jsonOutput
WriterCloses ==
    /\ writer.stage \in {"open", "partial"}
    /\ writer' = NoWrite
    /\ cacheFile' = [exists |-> TRUE, content |-> writer.json[1]]
    /\ cacheMtime' = now
    /\ response' = [status |-> 200, body |-> EchoLines \o <<writer.json[1]>>]
    /\ served' = writer.served
    /\ UNCHANGED <<upstream, now, ticks>>
    /\ UNCHANGED clientVars

\* a request that finds the cache valid, at any moment of another request
ReaderRequest ==
    /\ CacheHit
    /\ UNCHANGED clientVars

\* the clock advances
Tick ==
    /\ ticks < MaxTicks
    /\ \E dt \in {1, cacheTime - 1} : now' = now + dt
    /\ ticks' = ticks + 1
    /\ UNCHANGED <<upstream, cacheFile, cacheMtime, response, served, writer>>
    /\ UNCHANGED clientVars

-----------------------------------------------------------------------------
(* Specifications *)

InitWith(inputs) ==
    /\ upstream \in inputs
    /\ now = 0
    /\ ticks = 0
    /\ cacheFile = NoFile
    /\ cacheMtime = 0
    /\ response = [status |-> 0, body |-> <<>>]
    /\ served = NoRequest
    /\ page = "loading"
    /\ state = InitialState
    /\ drawTimer = NoTimer
    /\ tenDrawTimer = NoTimer
    /\ ui = InitialUi
    /\ writer = NoWrite

\* the server alone, with a reliable upstream, over all bounded raw inputs
PipelineInit ==
    InitWith(UpstreamInputs(CodeSet \ {"TWN"}, IndicatorProfiles, MaxCountries))

PipelineNext == OtherRequest({NoFailure, [at |-> 1, kind |-> "curl"]})

PipelineSpec == PipelineInit /\ [][PipelineNext]_vars

\* server and client
ClientProfiles ==
    { Profile(Row(Some(5)), Row(Some(1)), Row(Some(1234))),
      Profile(Row(Some(2)), Row(Some(3)), NoRow),
      Profile(Row(Some(1)), Row(Some(1)), Row(Null)) }

Init ==
    InitWith(UpstreamInputs({"USA", "CHN", "WLD", "EUU"}, ClientProfiles,
                            MaxCountries))

Next ==
    \/ LoadData({NoFailure}, {TRUE})
    \/ Reload
    \/ StartDrawing
    \/ ShowResult({TRUE})
    \/ StartTenDraw({0, 1})
    \/ ShowTenDrawResults({TRUE})

Spec == Init /\ [][Next]_vars

\* the server with an unreliable upstream and a running clock
CacheInit ==
    InitWith(UpstreamInputs({"USA", "WLD"}, ClientProfiles, 1))

CacheNext == OtherRequest(FetchFailures) \/ Tick

CacheSpec == CacheInit /\ [][CacheNext]_vars

\* the server with one request inside file_put_contents while others arrive
ConcurrentInit ==
    InitWith(UpstreamInputs({"USA", "CHN"}, ClientProfiles, MaxCountries))

ConcurrentNext ==
    \/ WriterOpens
    \/ WriterWrites
    \/ WriterCloses
    \/ ReaderRequest
    \/ Tick

ConcurrentSpec == ConcurrentInit /\ [][ConcurrentNext]_vars

\* the client with its maps and every button
MapProfiles ==
    { Profile(Row(Some(5)), Row(Some(1)), Row(Some(1234))),
      Profile(Row(Some(2)), Row(Some(3)), NoRow) }

MapInit == InitWith(UpstreamInputs({"CHN", "TWN"}, MapProfiles, MaxCountries))

MapNext ==
    \/ LoadData({NoFailure}, BOOLEAN)
    \/ Reload
    \/ StartDrawing
    \/ ShowResult(BOOLEAN)
    \/ StartTenDraw({1})
    \/ ShowTenDrawResults(BOOLEAN)
    \/ ChangeColorScheme
    \/ Retry
    \/ FocusTenDrawResult
    \/ BackToStart

MapSpec == MapInit /\ [][MapNext]_vars

\* the browser with every button of the three result screens and of the
\* share modal, over datasets with and without a country that can be drawn
UiProfiles == { Profile(Row(Some(5)), Row(Some(1)), Row(Some(1234))) }

UiInit == InitWith(UpstreamInputs({"USA", "CHN", "WLD"}, UiProfiles, MaxCountries))

UiNext ==
    \/ LoadData({NoFailure}, {TRUE})
    \/ Reload
    \/ StartDrawing
    \/ StartDrawingReturns
    \/ ShowResult({TRUE})
    \/ Retry
    \/ StartTenDraw({1})
    \/ ShowTenDrawResults({TRUE})
    \/ BackToStart
    \/ RetryTenDraw
    \/ RetryTenDrawTimer({1})
    \/ Share
    \/ ShareTenDraw
    \/ CloseShareModal
    \/ SaveImage

UiSpec == UiInit /\ [][UiNext]_vars

\* the same browser when every pending timer fires: the callbacks of
\* setTimeout run once their delay has passed
LiveSpec ==
    /\ UiInit
    /\ [][UiNext]_vars
    /\ WF_vars(ShowResult({TRUE}))
    /\ WF_vars(ShowTenDrawResults({TRUE}))
    /\ WF_vars(RetryTenDrawTimer({1}))

-----------------------------------------------------------------------------
(* Vocabulary of the properties *)

\* the snapshot of the last finished pipeline run
HasOutput == cacheFile # NoFile
ServedOutput == cacheFile.content.json

\* what the merge loop leaves for the current upstream data
Merged ==
    Merge(upstream.birthRate, upstream.population, upstream.gdp, upstream.country)

\* the real-country predicate of the specification
TwoUpperLetters(iso2) ==
    Len(iso2) = 2 /\ iso2[1] \in UpperLetters /\ iso2[2] \in UpperLetters

RealCountryPredicate(c) ==
    c.region # "Aggregates" /\ TwoUpperLetters(c.iso2)

\* the raw table has a row with a value for the code
HasValue(table, code) ==
    \E i \in 1..Len(table) :
        table[i].countryiso3code = code /\ table[i].value # Null

HasMetadata(code) ==
    \E i \in 1..Len(upstream.country) : upstream.country[i].id = code

MetadataOf(code) ==
    upstream.country[CHOOSE i \in 1..Len(upstream.country) :
                        upstream.country[i].id = code]

OutputIds(output) == {output.countries[i].id : i \in 1..Len(output.countries)}

RecordOf(output, code) ==
    output.countries[CHOOSE i \in 1..Len(output.countries) :
                        output.countries[i].id = code]

-----------------------------------------------------------------------------
(* C1 *)

\* C1: the server's totalWeight is the sum of weight over exactly the records
\* that satisfy the real-country predicate, the records drawCountry can select
C1_TotalWeightOverRealCountries ==
    HasOutput =>
        /\ Merged.totalWeight
             = SumSeq(SelectSeq(Merged.mergedData, RealCountryPredicate), "weight")
        /\ \A c \in SeqRange(ServedOutput.countries) : RealCountryPredicate(c)

-----------------------------------------------------------------------------
(* C2 *)

\* C2: with at least one eligible country, the probabilities of the records
\* the sampler draws from sum to 100 within 0.001
C2_EligibleProbabilitiesSumTo100 ==
    (HasOutput /\ Filter(ServedOutput.countries) # <<>>) =>
        Abs(SumSeq(Filter(ServedOutput.countries), "probability") - 100 * ProbScale)
            <= ProbScale \div 1000

-----------------------------------------------------------------------------
(* C3 *)

\* the number of the T equal slices of [0, totalWeight) whose midpoint makes
\* drawCountry return the entry; births are whole numbers, so the sampler is
\* constant on each slice
SlicesSelecting(countries, T, entry) ==
    Cardinality({k \in 0..(T - 1) :
                    drawCountry(countries, 2 * k + 1, 2 * T).id = entry.id})

\* C3: the fraction of random values for which drawCountry returns an entry
\* equals the entry's weight divided by the server's totalWeight
C3_DrawFractionMatchesProbability ==
    page = "ready" =>
        LET countries == state.data[1].countries
            T == DrawTotalWeight(Filter(countries))
        IN  \A entry \in SeqRange(Filter(countries)) :
                SlicesSelecting(countries, T, entry) * Merged.totalWeight
                    = entry.weight * T

-----------------------------------------------------------------------------
(* C4 *)

IsRealRecord(r) == "region" \in DOMAIN r /\ RealCountryPredicate(r)

\* C4: when at least one record is a real country, a single draw, every draw
\* of a ten-draw and the fallback after the loop return a real country only
C4_DrawReturnsRealCountry ==
    (page = "ready"
       /\ \E c \in SeqRange(state.data[1].countries) : RealCountryPredicate(c)) =>
        /\ state.currentResult # Null => IsRealRecord(state.currentResult[1])
        /\ state.tenDrawResults # Null =>
              \A i \in 1..Len(state.tenDrawResults[1]) :
                  IsRealRecord(state.tenDrawResults[1][i])
        /\ \A num \in 0..(2 * RandomDen) :
              IsRealRecord(drawCountry(state.data[1].countries, num, RandomDen))

C4_Witness ==
    /\ page = "ready"
    /\ state.currentResult # Null
    /\ state.tenDrawResults # Null
    /\ \E c \in SeqRange(state.data[1].countries) : RealCountryPredicate(c)
    /\ \E c \in SeqRange(state.data[1].countries) : ~RealCountryPredicate(c)

-----------------------------------------------------------------------------
(* C5 *)

\* the GDP table with a value for every country code
GdpForAll ==
    [i \in 1..Len(CountryCodes) |->
        [countryiso3code |-> CountryCodes[i], value |-> Some(1234)]]

\* C5: a code is in the output only with a non-null birth rate, a non-null
\* population and a metadata row, and the GDP table does not decide inclusion
C5_IncludedOnlyWithCompleteData ==
    HasOutput =>
        /\ \A code \in OutputIds(ServedOutput) :
              /\ HasValue(upstream.birthRate, code)
              /\ HasValue(upstream.population, code)
              /\ HasMetadata(code)
        /\ OutputIds(ServedOutput)
             = OutputIds(Pipeline([upstream EXCEPT !.gdp = <<>>], now))
        /\ OutputIds(ServedOutput)
             = OutputIds(Pipeline([upstream EXCEPT !.gdp = GdpForAll], now))

C5_Witness ==
    /\ HasOutput
    /\ \E code \in OutputIds(ServedOutput) : ~HasValue(upstream.gdp, code)
    /\ \E i \in 1..Len(upstream.birthRate) :
          /\ upstream.birthRate[i].value = Null
          /\ upstream.birthRate[i].countryiso3code \notin OutputIds(ServedOutput)

-----------------------------------------------------------------------------
(* C6 *)

\* C6: every output record has births > 0, population > 0 and an iso2 that
\* is a two-letter code
C6_OutputRecordsWellFormed ==
    HasOutput =>
        \A c \in SeqRange(ServedOutput.countries) :
            c.births > 0 /\ c.population > 0 /\ TwoUpperLetters(c.iso2)

-----------------------------------------------------------------------------
(* C7 *)

\* the value of the code's row in a raw table
RawValueOf(table, code) ==
    table[CHOOSE i \in 1..Len(table) :
            table[i].countryiso3code = code /\ table[i].value # Null].value[1]

\* C7: a country with birth rate, population and metadata but no GDP value
\* gets gdpPerCapita = 0, is included exactly when its births and population
\* are positive (and its iso2 passes the merger's test), and has the weight
\* and probability it has when a GDP value is present
C7_MissingGdpDefaultsToZero ==
    HasOutput =>
        \A code \in CodeSet :
            (/\ HasValue(upstream.birthRate, code)
             /\ HasValue(upstream.population, code)
             /\ HasMetadata(code)
             /\ ~HasValue(upstream.gdp, code)) =>
                LET included == code \in OutputIds(ServedOutput)
                    birthRate == RawValueOf(upstream.birthRate, code)
                    population == RawValueOf(upstream.population, code)
                    iso2 == MetadataOf(code).iso2Code
                    withGdp ==
                        Pipeline([upstream EXCEPT !.gdp =
                                    @ \o << [countryiso3code |-> code,
                                             value |-> Some(1234)] >>], now)
                IN  /\ included <=> (/\ birthRate * population > 0
                                     /\ population > 0
                                     /\ iso2 # <<>>
                                     /\ Len(iso2) <= 2)
                    /\ included <=> code \in OutputIds(withGdp)
                    /\ included =>
                          /\ RecordOf(ServedOutput, code).gdpPerCapita = 0
                          /\ RecordOf(withGdp, code).gdpPerCapita # 0
                          /\ RecordOf(ServedOutput, code).weight
                               = RecordOf(withGdp, code).weight
                          /\ RecordOf(ServedOutput, code).probability
                               = RecordOf(withGdp, code).probability

C7_Witness ==
    /\ HasOutput
    /\ \E code \in OutputIds(ServedOutput) :
          \A i \in 1..Len(upstream.gdp) : upstream.gdp[i].countryiso3code # code
    /\ \E code \in OutputIds(ServedOutput) :
          \E i \in 1..Len(upstream.gdp) :
              upstream.gdp[i] = [countryiso3code |-> code, value |-> Null]

-----------------------------------------------------------------------------
(* C8 *)

\* C8: weight is the unrounded birthRate * population / 1000, totalWeight is
\* the sum of the weights and every probability is computed from the weights;
\* the rounded births field enters none of them
C8_WeightIsUnroundedBirths ==
    HasOutput =>
        LET countries == ServedOutput.countries IN
        /\ \A c \in SeqRange(countries) :
              c.weight = RawValueOf(upstream.birthRate, c.id)
                           * RawValueOf(upstream.population, c.id)
        /\ Merged.totalWeight = SumSeq(countries, "weight")
        /\ \A c \in SeqRange(countries) :
              c.probability = Probability(c.weight, SumSeq(countries, "weight"))

C8_Witness ==
    /\ HasOutput
    /\ Len(ServedOutput.countries) >= 2
    /\ \E c \in SeqRange(ServedOutput.countries) :
          /\ c.births * WeightScale # c.weight
          /\ SumSeq(ServedOutput.countries, "births") > 0
          /\ c.probability
               # Probability(c.births, SumSeq(ServedOutput.countries, "births"))

-----------------------------------------------------------------------------
(* C9 *)

\* Scenario A: USA 12 per mille of 300 million, CHN 9 per mille of 1000 million
ScenarioA ==
    Tables([code \in {"USA", "CHN"} |->
              IF code = "USA"
              THEN Profile(Row(Some(12000)), Row(Some(1200)), Row(Some(81695187)))
              ELSE Profile(Row(Some(9000)), Row(Some(4000)), NoRow)])

\* C9: probability is weight / totalWeight * 100 rounded to 6 decimals (checked
\* by multiplication where the products fit the integers), and Scenario A gives
\* totalWeight 12600000, USA 28.571429 and CHN 71.428571
C9_ProbabilityRoundedToSixDecimals ==
    HasOutput =>
        LET T == Merged.totalWeight IN
        /\ T <= 2147483647 \div (100 * ProbScale) =>
              \A c \in SeqRange(ServedOutput.countries) :
                  2 * Abs(c.probability * T - c.weight * 100 * ProbScale) <= T
        /\ upstream = ScenarioA =>
              /\ RecordOf(ServedOutput, "USA").births = 3600000
              /\ RecordOf(ServedOutput, "CHN").births = 9000000
              /\ T = 12600000 * WeightScale
              /\ RecordOf(ServedOutput, "USA").probability = 28571429
              /\ RecordOf(ServedOutput, "CHN").probability = 71428571

C9_Witness ==
    /\ HasOutput
    /\ upstream = ScenarioA
    /\ Len(ServedOutput.countries) = 2

-----------------------------------------------------------------------------
(* C10 *)

\* C10: every entry of a successful output has weight >= 0, probability >= 0
\* and births >= 0
C10_EntriesNonNegative ==
    HasOutput =>
        \A c \in SeqRange(ServedOutput.countries) :
            c.weight >= 0 /\ c.probability >= 0 /\ c.births >= 0

C10_Witness ==
    /\ HasOutput
    /\ ServedOutput.countries # <<>>
    /\ \E code \in CodeSet :
          /\ HasValue(upstream.birthRate, code)
          /\ HasValue(upstream.population, code)
          /\ HasMetadata(code)
          /\ ~SkipIso2(MetadataOf(code).iso2Code)
          /\ RawValueOf(upstream.birthRate, code)
               * RawValueOf(upstream.population, code) < 0
          /\ code \notin OutputIds(ServedOutput)

-----------------------------------------------------------------------------
(* C11 *)

\* the JSON document that ends the body of a response
ResultOf(resp) == resp.body[Len(resp.body)]

IsFailureResult(resp) ==
    /\ resp.body # <<>>
    /\ "json" \in DOMAIN ResultOf(resp)
    /\ ~ResultOf(resp).json.success

\* C11: when the raw inputs yield no eligible record (totalWeight = 0), a
\* finished request ends in an error result: it never answers with a success
\* result and never leaves a snapshot with an empty distribution
C11_EmptyMergeIsAnError ==
    (response.status # 0 /\ Merged.totalWeight = 0) =>
        /\ IsFailureResult(response)
        /\ ~HasOutput

-----------------------------------------------------------------------------
(* C12 *)

\* C12: on a loaded dataset without an eligible record no single draw ever
\* hands a value on: no result is stored and no result waits in the timer
C12_EmptyDrawReturnsNoValue ==
    (page = "ready" /\ Filter(state.data[1].countries) = <<>>) =>
        /\ state.currentResult = Null
        /\ ~drawTimer.pending

-----------------------------------------------------------------------------
(* C13 *)

RECURSIVE RunsThrough(_, _, _, _)
\* the selection loop passes every entry from i on with a remainder above 0
RunsThrough(realCountries, i, random, den) ==
    \/ i > Len(realCountries)
    \/ /\ random - realCountries[i].births * den > 0
       /\ RunsThrough(realCountries, i + 1,
                      random - realCountries[i].births * den, den)

\* the values of num/RandomDen tried on the selection loop; those of
\* RandomDen and above stand for a remainder that stays above 0
LoopInputs == 0..(2 * RandomDen)

-----------------------------------------------------------------------------
(* C14 *)

\* C14: a ten-draw leaves exactly 10 results, the i-th with rank i, and every
\* result is an eligible record of the dataset with its rank attached
C14_TenDrawGivesTenSelectableResults ==
    (page = "ready" /\ state.tenDrawResults # Null) =>
        LET results == state.tenDrawResults[1]
            real == Filter(state.data[1].countries)
        IN  /\ Len(results) = TenDrawCount
            /\ \A i \in 1..Len(results) :
                  /\ results[i].rank = i
                  /\ \E c \in SeqRange(real) : results[i] = WithRank(c, i)

-----------------------------------------------------------------------------
(* C15 *)

\* the last request found a cache file younger than cacheTime seconds
FoundFreshCache == served.done /\ served.existed /\ served.age < cacheTime

\* C15: a request that finds the cache file with an age strictly below 86400
\* seconds answers with the file's content and nothing else, starts no
\* upstream fetch, runs no merge and leaves the file and its time untouched
C15_FreshCacheServedVerbatim ==
    FoundFreshCache =>
        /\ response = [status |-> 200, body |-> <<cacheFile.content>>]
        /\ served.fetches = 0
        /\ ~served.merged
        /\ ~served.wrote
        /\ cacheMtime = served.time - served.age

C15_Witness ==
    /\ FoundFreshCache
    /\ served.age = cacheTime - 1
    /\ response.status = 200

-----------------------------------------------------------------------------
(* C16 *)

\* C16: a request that finds no cache file, or one of age 86400 seconds or
\* more, starts the pipeline again; unless a fetch throws it runs all four
\* fetches and the merge, answers with the new output and writes it to the
\* cache file with the time of the request, so that the file is valid for the
\* 86400 seconds that follow
C16_StaleOrMissingCacheRebuilt ==
    (served.done /\ ~FoundFreshCache) =>
        /\ served.fetches >= 1
        /\ \/ IsFailureResult(response)
           \/ /\ served.fetches = Len(EchoLines)
              /\ served.merged
              /\ served.wrote
              /\ response.status = 200
              /\ ResultOf(response)
                   = Json(Pipeline(ParsedTables(upstream, served.failure),
                                   served.time))
              /\ cacheFile = [exists |-> TRUE, content |-> ResultOf(response)]
              /\ cacheMtime = served.time
              /\ (now - served.time < cacheTime => CacheValid)

C16_Witness ==
    /\ served.done
    /\ served.existed
    /\ served.age = cacheTime
    /\ served.wrote
    /\ served.failure = NoFailure
    /\ CacheValid

-----------------------------------------------------------------------------
(* C17 *)

\* C17: when one of the four fetches fails (transport error, status other
\* than 200, body that is not a JSON array of two or more elements) the
\* request ends with the failure result, starts no later fetch, runs no merge
\* and writes no country list
C17_FailedFetchEndsRequest ==
    (served.done /\ served.failure.at > 0) =>
        /\ IsFailureResult(response)
        /\ served.fetches = served.failure.at
        /\ ~served.merged
        /\ ~served.wrote

-----------------------------------------------------------------------------
(* C18 *)

\* C18: in a successful output every record has births at least as large as
\* the births of the record after it
C18_CountriesSortedByBirths ==
    HasOutput =>
        \A i \in 1..(Len(ServedOutput.countries) - 1) :
            ServedOutput.countries[i].births
                >= ServedOutput.countries[i + 1].births

C18_Witness ==
    /\ HasOutput
    /\ Len(ServedOutput.countries) >= 2
    /\ ServedOutput.countries[1].id # Merged.mergedData[1].id
    /\ ServedOutput.countries[1].births > ServedOutput.countries[2].births

-----------------------------------------------------------------------------
(* C20 *)

\* the dataset as loadData received it
LoadedSnapshot == ResultOf(response).json

HasRecordWithIso2(countries, iso2) ==
    \E c \in SeqRange(countries) : c.iso2 = iso2

\* C20: once the dataset is loaded it stays the snapshot that was received:
\* single draws, ten-draws, data binding, recolouring, focusing, view reset
\* and the colour sync of CN and TW change no record, its weight, births and
\* probability included, and add no rank to it
C20_DatasetUnchangedByClient ==
    page = "ready" =>
        /\ state.data = Some(LoadedSnapshot)
        /\ \A i \in 1..Len(state.data[1].countries) :
              LET c == state.data[1].countries[i]
                  loaded == LoadedSnapshot.countries[i]
              IN  /\ c.weight = loaded.weight
                  /\ c.births = loaded.births
                  /\ c.probability = loaded.probability
                  /\ "rank" \notin DOMAIN c

C20_Witness ==
    /\ page = "ready"
    /\ HasRecordWithIso2(state.data[1].countries, <<"C", "N">>)
    /\ HasRecordWithIso2(state.data[1].countries, <<"T", "W">>)
    /\ state.currentResult # Null
    /\ ~drawTimer.pending
    /\ state.maps.result = Null
    /\ state.tenDrawResults # Null
    /\ state.maps.start # Null
    /\ state.maps.start[1].colorScheme = "gdp"
    /\ state.maps.start[1].countries # NoFeatures
    /\ state.maps.start[1].countries[<<"T", "W">>].fill # NewFeature.fill
    /\ state.maps.tenDraw # Null
    /\ state.maps.tenDraw[1].selectedCountry # Null

-----------------------------------------------------------------------------
(* C21 *)

\* the sum of births of the first i entries
BirthsUpTo(realCountries, i) == SumSeq(SubSeq(realCountries, 1, i), "births")

\* the smallest index at which random minus the births so far is <= 0
SmallestIndex(realCountries, random, den) ==
    CHOOSE i \in 1..Len(realCountries) :
        /\ random - BirthsUpTo(realCountries, i) * den <= 0
        /\ \A k \in 1..(i - 1) :
              random - BirthsUpTo(realCountries, k) * den > 0

\* C21: for a non-empty eligible set and a random value r in [0, totalWeight)
\* drawCountry returns the eligible entry of the smallest index i, in dataset
\* order, at which r minus the births of the entries up to i is <= 0, with
\* totalWeight the sum of births over the eligible entries
C21_DrawReturnsSmallestIndex ==
    (page = "ready" /\ Filter(state.data[1].countries) # <<>>) =>
        LET countries == state.data[1].countries
            real == Filter(countries)
            T == SumSeq(real, "births")
        IN  /\ \A num \in 0..(RandomDen - 1) :
                  drawCountry(countries, num, RandomDen)
                      = real[SmallestIndex(real, num * T, RandomDen)]
            /\ (state.currentResult # Null) =>
                  \E num \in 0..(RandomDen - 1) :
                      state.currentResult[1]
                          = real[SmallestIndex(real, num * T, RandomDen)]

C21_Witness ==
    /\ page = "ready"
    /\ state.currentResult # Null
    /\ LET real == Filter(state.data[1].countries)
       IN  /\ Len(real) >= 2
           /\ state.currentResult[1] = real[2]
           /\ \E num \in 1..(RandomDen - 1) :
                 num * SumSeq(real, "births") = real[1].births * RandomDen

-----------------------------------------------------------------------------
(* C26 *)

\* C26: a map controller that has been bound had its country shapes loaded
\* when bindData ran: its countries map is populated
C26_BoundMapsAreLoaded ==
    page = "ready" =>
        \A slot \in MapSlots :
            (state.maps[slot] # Null /\ state.maps[slot][1].bound)
                => state.maps[slot][1].countries # NoFeatures

-----------------------------------------------------------------------------
(* C27 *)

\* C27: the body of a response that rebuilt the snapshot is the body a cache
\* hit on that snapshot returns, a single JSON document, so loadData accepts
\* the one exactly when it accepts the other
C27_MissBodyEqualsHitBody ==
    (served.done /\ served.wrote) =>
        /\ response.body = <<cacheFile.content>>
        /\ ParsesAsJson(response.body)

-----------------------------------------------------------------------------
(* C28 *)

\* a step of a request whose try block threw
FailedRequestStep ==
    /\ ticks' = ticks
    /\ ~CacheValid
    /\ served'.failure.kind \in ThrowingKinds

\* C28: a request whose pipeline fails leaves the content and the time of the
\* cache file as they were, answers with the failure result and not with the
\* expired snapshot, stores no failure result, and leaves the cache invalid,
\* so that the next request runs the pipeline again
C28_FailureLeavesCacheUnchanged ==
    [][FailedRequestStep =>
          /\ cacheFile' = cacheFile
          /\ cacheMtime' = cacheMtime
          /\ IsFailureResult(response')
          /\ \A i \in 1..Len(response'.body) :
                cacheFile # NoFile => response'.body[i] # cacheFile.content
          /\ cacheFile' # NoFile => cacheFile'.content.json.success
          /\ ~CacheValid']_vars

C28_Witness ==
    /\ served.done
    /\ served.failure.kind \in ThrowingKinds
    /\ served.existed
    /\ served.age >= cacheTime
    /\ HasOutput
    /\ IsFailureResult(response)

-----------------------------------------------------------------------------
(* C30 *)

\* C30: in every successful output totalCountries is the number of records
\* of countries and totalBirths is the sum of their weight fields, rounded to
\* a whole number
C30_TotalsMatchCountries ==
    HasOutput =>
        /\ ServedOutput.totalCountries = Len(ServedOutput.countries)
        /\ ServedOutput.totalBirths
             = RoundHalfAway(SumSeq(ServedOutput.countries, "weight"),
                             WeightScale)

C30_Witness ==
    /\ HasOutput
    /\ Len(ServedOutput.countries) >= 2
    /\ ServedOutput.totalBirths # SumSeq(ServedOutput.countries, "births")

-----------------------------------------------------------------------------
(* C25 *)

\* C25: a download of the image of a single result, which share() put into
\* the modal, is named after a single result, and a download is given the
\* ten-draw name only when shareTenDraw() put its image into the modal
C25_DownloadNamedAfterSharedResult ==
    ui.download # Null =>
        LET saved == ui.download[1]
        IN  /\ saved.image = "single" =>
                  /\ saved.fileName.kind = "single"
                  /\ saved.fileName.name # Null
            /\ saved.fileName.kind = "tenDraw" => saved.image = "tenDraw"

-----------------------------------------------------------------------------
(* C24 *)

\* C24: a single draw and a ten-draw are never in progress together:
\* isDrawing and isTenDrawing are never both true, and the timers of the two
\* draws, which both write state.maps.drawing, are never both pending
C24_DrawsNeverInterleave ==
    /\ ~(state.isDrawing /\ state.isTenDrawing)
    /\ ~(drawTimer.pending /\ tenDrawTimer.pending)

-----------------------------------------------------------------------------
(* C22 *)

\* C22: while a single draw is in progress no step of the page replaces
\* state.currentResult or starts a second draw: the pending timers stay as
\* they are until they fire, and the result they hand to showResult is the
\* one stored in state.currentResult
C22_DrawInProgressIsNotReplaced ==
    [][(state.isDrawing /\ page' = "ready") =>
          /\ state'.currentResult = state.currentResult
          /\ drawTimer.pending =>
                /\ state.currentResult = Some(drawTimer.result)
                /\ drawTimer' \in {drawTimer, NoTimer}
          /\ drawTimer'.pending => drawTimer.pending]_vars

\* a draw has run to the end of showResult although the start button was
\* clicked again while it was in progress
C22_Witness ==
    /\ ui.startReturned
    /\ ~state.isDrawing
    /\ ~drawTimer.pending
    /\ state.maps.result # Null
    /\ HasCurrentResult(state)

-----------------------------------------------------------------------------
(* C23 *)

\* C23: when every pending timer fires, a single draw that has started
\* ends with isDrawing false again and a ten-draw that has started ends with
\* isTenDrawing false again, whatever dataset was loaded
C23_StartedDrawsComplete ==
    /\ state.isDrawing ~> ~state.isDrawing
    /\ state.isTenDrawing ~> ~state.isTenDrawing

-----------------------------------------------------------------------------
(* C29 *)

\* C29: the body of a response served from the cache is one complete JSON
\* document of a successful run, also while another request is writing the
\* cache file
C29_CacheHitServesWholeSnapshot ==
    (served.done /\ served.fetches = 0) =>
        /\ ParsesAsJson(response.body)
        /\ response.body[1].json.success

=============================================================================
